---- MODULE Spec2Model ----
(***************************************************************************)
(* Model of python/strategy/strategy_param.py: the function-based Strategy *)
(* example (Customer, LineItem, Order and the three promotion factories).  *)
(*                                                                         *)
(* Objects.  LineItem objects live in the heap `items` and are referred to *)
(* by their index; list objects live in `lists` and are referred to by     *)
(* name, so that aliasing (two references to one object) is expressible.   *)
(*                                                                         *)
(* Amounts.  Prices are written with two decimals, in cents.  The variable *)
(* `arith` fixes how the program's numbers are computed:                   *)
(*   "decimal"   exact arithmetic; an amount is an integer count of        *)
(*               1/10000, so 0.5 is 5000 and 42.00 is 420000, and          *)
(*               x * percent / 100.0 is exact for every price in cents;    *)
(*   "binary64"  the arithmetic of Python's float: an amount is the exact  *)
(*               value of an IEEE 754 double, every operation rounds its   *)
(*               exact result to 53 significant bits, ties to even.        *)
(***************************************************************************)
EXTENDS Integers, Sequences, FiniteSets, TLC

VARIABLES
    arith,       \* "decimal" or "binary64": the arithmetic of the amounts
    items,       \* heap of LineItem objects: Seq([product, quantity, price])
    lists,       \* heap of list objects: "source" (the caller's), "copy"
    customer,    \* Order.customer
    cartRef,     \* Order.cart: a reference into lists
    promotion,   \* Order.promotion
    attrs,       \* the other instance attributes of the Order (its __dict__)
    op,          \* the operation performed last
    log,         \* what total(), promotion(), due() returned during op
    computes,    \* number of evaluations of the sum of line 56 so far
    firstTotal,  \* << >>, or <<v>>: v returned by the first total() ever
    seenTotal,   \* << >>, or <<v>>: first total() since the last item change
    seenDue,     \* same for due()
    seenDiscount,\* same for the promotion's result
    calls,       \* number of query operations performed by the client
    itemMuts,    \* number of LineItem attribute assignments by the client
    srcMuts      \* number of mutations of the caller's list

vars == <<arith, items, lists, customer, cartRef, promotion, attrs, op, log,
          computes, firstTotal, seenTotal, seenDue, seenDiscount,
          calls, itemMuts, srcMuts>>

----------------------------------------------------------------------------
(* Bounds of the exploration *)

MaxLen == 2          \* longest cart enumerated over the pool
MaxLines == 11       \* most lines of a generated long order
MaxQueries == 1      \* query operations per behaviour of SpecQueries
MaxCalls == 2        \* query operations per behaviour of Spec
MaxMutations == 1    \* client mutations per behaviour of Spec
MaxPosition == 2     \* the client mutates the first MaxPosition list places
MaxFloatLen == 2     \* longest cart of SpecBinary64

----------------------------------------------------------------------------
(* Natural numbers of any size: sequences of limbs, least significant      *)
(* first, without leading zero limbs (0 is << >>)                          *)

LimbBits == 20
Base == 2^LimbBits

Max(a, b) == IF a >= b THEN a ELSE b

Limb(n, i) == IF i <= Len(n) THEN n[i] ELSE 0

RECURSIVE Norm(_)
Norm(n) ==
    IF n # << >> /\ n[Len(n)] = 0 THEN Norm(SubSeq(n, 1, Len(n) - 1)) ELSE n

RECURSIVE AddFrom(_, _, _, _)
AddFrom(a, b, i, carry) ==
    IF i > Max(Len(a), Len(b))
    THEN IF carry = 0 THEN << >> ELSE <<carry>>
    ELSE LET t == Limb(a, i) + Limb(b, i) + carry
         IN  <<t % Base>> \o AddFrom(a, b, i + 1, t \div Base)

AddN(a, b) == Norm(AddFrom(a, b, 1, 0))

RECURSIVE SubFrom(_, _, _, _)
SubFrom(a, b, i, borrow) ==
    IF i > Len(a) THEN << >>
    ELSE LET t == Limb(a, i) - Limb(b, i) - borrow
         IN  IF t < 0 THEN <<t + Base>> \o SubFrom(a, b, i + 1, 1)
             ELSE <<t>> \o SubFrom(a, b, i + 1, 0)

\* a - b, for a >= b
SubN(a, b) == Norm(SubFrom(a, b, 1, 0))

RECURSIVE LessFrom(_, _, _)
LessFrom(a, b, i) ==
    IF i = 0 THEN FALSE
    ELSE IF a[i] # b[i] THEN a[i] < b[i] ELSE LessFrom(a, b, i - 1)

LessN(a, b) ==
    IF Len(a) # Len(b) THEN Len(a) < Len(b) ELSE LessFrom(a, b, Len(a))

RECURSIVE MulFrom(_, _, _, _)
MulFrom(a, k, i, carry) ==
    IF i > Len(a)
    THEN IF carry = 0 THEN << >> ELSE <<carry>>
    ELSE LET t == a[i] * k + carry
         IN  <<t % Base>> \o MulFrom(a, k, i + 1, t \div Base)

\* a * k, for 0 <= k < 2^10
MulSmall(a, k) == Norm(MulFrom(a, k, 1, 0))

RECURSIVE DivFrom(_, _, _, _)
DivFrom(a, d, i, r) ==
    IF i = 0 THEN [q |-> << >>, r |-> r]
    ELSE LET cur == r * Base + a[i]
             rest == DivFrom(a, d, i - 1, cur % d)
         IN  [q |-> Append(rest.q, cur \div d), r |-> rest.r]

\* quotient and remainder of a by d, for 0 < d <= 2^10
DivSmall(a, d) ==
    LET qr == DivFrom(a, d, Len(a), 0) IN [q |-> Norm(qr.q), r |-> qr.r]

RECURSIVE Bits(_)
Bits(x) == IF x = 0 THEN 0 ELSE 1 + Bits(x \div 2)

BitLen(a) ==
    IF a = << >> THEN 0 ELSE LimbBits * (Len(a) - 1) + Bits(a[Len(a)])

Bit(a, k) == (Limb(a, (k \div LimbBits) + 1) \div 2^(k % LimbBits)) % 2

\* bits 0 .. k-1 of a are all 0
LowZero(a, k) ==
    /\ \A i \in DOMAIN a : i <= k \div LimbBits => a[i] = 0
    /\ Limb(a, (k \div LimbBits) + 1) % 2^(k % LimbBits) = 0

\* a with its bits 0 .. k-1 set to 0
ClearLow(a, k) ==
    [i \in DOMAIN a |->
        IF i <= k \div LimbBits THEN 0
        ELSE IF i = (k \div LimbBits) + 1
             THEN (a[i] \div 2^(k % LimbBits)) * 2^(k % LimbBits)
             ELSE a[i]]

Pow2(k) ==
    [i \in 1..((k \div LimbBits) + 1) |->
        IF i = (k \div LimbBits) + 1 THEN 2^(k % LimbBits) ELSE 0]

----------------------------------------------------------------------------
(* Python float: IEEE 754 binary64.  A float is [neg, mag]: its exact      *)
(* value is (-1)^neg * mag * 2^-FractionBits.  Every double in             *)
(* [2^-27, 2^20) is such a number; the amounts of the model lie in that    *)
(* range, or are 0 (kept with neg = FALSE: -0.0 == 0.0 in Python).         *)

FractionBits == 80
MantissaBits == 53

\* a (with `sticky` telling that the exact value lies strictly above a)
\* rounded to MantissaBits significant bits, round-half-to-even
RoundHalfEven(a, sticky) ==
    LET s == BitLen(a) - MantissaBits
    IN  IF s <= 0 THEN a
        ELSE LET guard == Bit(a, s - 1) = 1
                 low == sticky \/ ~LowZero(a, s - 1)
                 odd == Bit(a, s) = 1
                 cut == ClearLow(a, s)
             IN  IF guard /\ (low \/ odd) THEN AddN(cut, Pow2(s)) ELSE Norm(cut)

MkFloat(neg, mag) == [neg |-> neg /\ mag # << >>, mag |-> mag]

\* float(n), for an int |n| < 2^20
FloatOfInt(n) ==
    MkFloat(n < 0, Norm([i \in 1..((FractionBits \div LimbBits) + 1) |->
                            IF i = (FractionBits \div LimbBits) + 1
                            THEN (IF n < 0 THEN -n ELSE n) ELSE 0]))

\* x * k, k an int, 0 <= k < 2^10
FloatTimesInt(x, k) == MkFloat(x.neg, RoundHalfEven(MulSmall(x.mag, k), FALSE))

\* x / float(d), d an int, 0 < d <= 2^10
FloatOverInt(x, d) ==
    LET qr == DivSmall(x.mag, d)
    IN  MkFloat(x.neg, RoundHalfEven(qr.q, qr.r # 0))

FloatPlus(x, y) ==
    IF x.neg = y.neg THEN MkFloat(x.neg, RoundHalfEven(AddN(x.mag, y.mag), FALSE))
    ELSE IF LessN(x.mag, y.mag)
         THEN MkFloat(y.neg, RoundHalfEven(SubN(y.mag, x.mag), FALSE))
         ELSE MkFloat(x.neg, RoundHalfEven(SubN(x.mag, y.mag), FALSE))

FloatMinus(x, y) == FloatPlus(x, MkFloat(~y.neg, y.mag))

\* x <= y
FloatAtMost(x, y) ==
    IF x.neg # y.neg THEN x.neg
    ELSE IF x.neg THEN ~LessN(x.mag, y.mag) ELSE ~LessN(y.mag, x.mag)

----------------------------------------------------------------------------
(* The numbers of the program, in the arithmetic chosen by `arith` *)

\* the literal c/100 (0.09 is Literal(9)), also an int such as 0
Literal(mode, cents) ==
    IF mode = "binary64" THEN FloatOverInt(FloatOfInt(cents), 100)
    ELSE cents * 100

\* a * k, k an int
Times(a, k) == IF arith = "binary64" THEN FloatTimesInt(a, k) ELSE a * k

\* a / 100.0
Over100(a) == IF arith = "binary64" THEN FloatOverInt(a, 100) ELSE a \div 100

Plus(a, b) == IF arith = "binary64" THEN FloatPlus(a, b) ELSE a + b

Minus(a, b) == IF arith = "binary64" THEN FloatMinus(a, b) ELSE a - b

AtMost(a, b) == IF arith = "binary64" THEN FloatAtMost(a, b) ELSE a <= b

Zero == Literal(arith, 0)

----------------------------------------------------------------------------
(* Python helpers *)

hasattr(obj, name) == name \in DOMAIN obj

setattr(obj, name, value) ==
    [n \in (DOMAIN obj) \cup {name} |-> IF n = name THEN value ELSE obj[n]]

\* the name under which `self.__total`, written inside class Order, is stored
MangledTotal == "_Order__total"

CacheProbeNameMangled == "_Order__total"

\* the string literal given to hasattr() on line 55; a string is not mangled
CacheProbeName == "__total"

RECURSIVE sum(_)
\* sum(iterable): left fold from 0
sum(s) ==
    IF s = << >> THEN Zero ELSE Plus(sum(SubSeq(s, 1, Len(s) - 1)), s[Len(s)])

\* amount * percent/100.0
PercentOf(amount, percent) == Over100(Times(amount, percent))

\* the value of the last return statement executed on self
Ret(self) == self.log[Len(self.log)].val

\* `return val` in fn
Returned(self, fn, val) ==
    [self EXCEPT !.log = Append(@, [fn |-> fn, val |-> val])]

----------------------------------------------------------------------------
(* LineItem *)

LineItem(product, quantity, price) ==
    [product |-> product, quantity |-> quantity, price |-> price]

LineItemTotalNoQuantity(item) == item.price

\* LineItem.total
LineItemTotal(item) == Times(item.price, item.quantity)

----------------------------------------------------------------------------
(* Order *)

Customer(name, fidelity) == [name |-> name, fidelity |-> fidelity]

OrderInitCartAlias(cart) == cart

\* self.cart = list(cart): a new list object with the same elements
OrderInitCart(cart) == "copy"

\* the line items of the order's cart, in order
CartItems(self) ==
    [i \in DOMAIN self.cart |-> self.items[self.cart[i]]]

OrderTotalAccumulating(self) ==
    LET old == IF hasattr(self.attrs, MangledTotal)
               THEN self.attrs[MangledTotal] ELSE Zero
        v == Plus(old, sum([i \in DOMAIN self.cart |->
                               LineItemTotal(CartItems(self)[i])]))
    IN  Returned([self EXCEPT !.attrs = setattr(@, MangledTotal, v),
                              !.computes = @ + 1], "total", v)

\* Order.total
OrderTotal(self) ==
    IF ~hasattr(self.attrs, CacheProbeName)
    THEN LET v == sum([i \in DOMAIN self.cart |->
                          LineItemTotal(CartItems(self)[i])])
         IN  Returned([self EXCEPT !.attrs = setattr(@, MangledTotal, v),
                                   !.computes = @ + 1], "total", v)
    ELSE Returned(self, "total", self.attrs[MangledTotal])

----------------------------------------------------------------------------
(* Promotions *)

FidelityThreshold == 1000
BulkThreshold == 20
LargeOrderThreshold == 10

fidelity_promo_strict(percent, order) ==
    IF order.customer.fidelity > FidelityThreshold
    THEN LET s1 == OrderTotal(order)
         IN  Returned(s1, "promotion", PercentOf(Ret(s1), percent))
    ELSE Returned(order, "promotion", Zero)

\* the lambda returned by fidelity_promo(percent), applied to order
fidelity_promo(percent, order) ==
    IF order.customer.fidelity >= FidelityThreshold
    THEN LET s1 == OrderTotal(order)
         IN  Returned(s1, "promotion", PercentOf(Ret(s1), percent))
    ELSE Returned(order, "promotion", Zero)

RECURSIVE bulk_loop_strict(_, _, _, _)
bulk_loop_strict(cartItems, percent, i, discount) ==
    IF i > Len(cartItems) THEN discount
    ELSE bulk_loop_strict(cartItems, percent, i + 1,
            IF cartItems[i].quantity > BulkThreshold
            THEN Plus(discount, PercentOf(LineItemTotal(cartItems[i]), percent))
            ELSE discount)

RECURSIVE bulk_loop(_, _, _, _)
\* the for loop of bulk_item_promo's discounter, from its i-th item on
bulk_loop(cartItems, percent, i, discount) ==
    IF i > Len(cartItems) THEN discount
    ELSE bulk_loop(cartItems, percent, i + 1,
            IF cartItems[i].quantity >= BulkThreshold
            THEN Plus(discount, PercentOf(LineItemTotal(cartItems[i]), percent))
            ELSE discount)

\* the discounter returned by bulk_item_promo(percent), applied to order
bulk_item_promo(percent, order) ==
    Returned(order, "promotion", bulk_loop(CartItems(order), percent, 1, Zero))

large_order_promo_lines(percent, order) ==
    IF Len(order.cart) >= LargeOrderThreshold
    THEN LET s1 == OrderTotal(order)
         IN  Returned(s1, "promotion", PercentOf(Ret(s1), percent))
    ELSE Returned(order, "promotion", Zero)

\* the discounter returned by large_order_promo(percent), applied to order
large_order_promo(percent, order) ==
    LET distinct_items == {CartItems(order)[i].product : i \in DOMAIN order.cart}
    IN  IF Cardinality(distinct_items) >= LargeOrderThreshold
        THEN LET s1 == OrderTotal(order)
             IN  Returned(s1, "promotion", PercentOf(Ret(s1), percent))
        ELSE Returned(order, "promotion", Zero)

\* self.promotion(self): promotion is any callable (Order) -> number; kind
\* "callable" stands for a caller-supplied function returning promo.value
CallPromotion(promo, order) ==
    CASE promo.kind = "fidelity_promo" -> fidelity_promo(promo.percent, order)
      [] promo.kind = "bulk_item_promo" -> bulk_item_promo(promo.percent, order)
      [] promo.kind = "large_order_promo" -> large_order_promo(promo.percent, order)
      [] promo.kind = "callable" -> Returned(order, "promotion", promo.value)

OrderDueAdding(self) ==
    LET s1 == IF self.promotion.kind = "None" THEN self
              ELSE CallPromotion(self.promotion, self)
        discount == IF self.promotion.kind = "None" THEN Zero ELSE Ret(s1)
        s2 == OrderTotal(s1)
    IN  Returned(s2, "due", Plus(Ret(s2), discount))

\* Order.due
OrderDue(self) ==
    LET s1 == IF self.promotion.kind = "None" THEN self
              ELSE CallPromotion(self.promotion, self)
        discount == IF self.promotion.kind = "None" THEN Zero ELSE Ret(s1)
        s2 == OrderTotal(s1)
    IN  Returned(s2, "due", Minus(Ret(s2), discount))

\* Order.__repr__: the two arguments handed to fmt.format, in evaluation
\* order; the rendering of the string itself is not represented
OrderRepr(self) == OrderDue(OrderTotal(self))

----------------------------------------------------------------------------
(* Inputs *)

\* the LineItem objects of the doctest carts, two lines around the bulk
\* threshold, and a line with a negative price (nothing validates a LineItem)
Pool(mode) ==
    <<LineItem("banana", 4, Literal(mode, 50)),
      LineItem("apple", 10, Literal(mode, 150)),
      LineItem("watermellon", 5, Literal(mode, 500)),
      LineItem("banana", 30, Literal(mode, 50)),
      LineItem("apple", 20, Literal(mode, 150)),
      LineItem("apple", 19, Literal(mode, 150)),
      LineItem("coupon", 20, Literal(mode, -50))>>

\* lines whose prices are not binary fractions
FloatPool(mode) ==
    <<LineItem("pin", 30, Literal(mode, 9)),
      LineItem("nut", 20, Literal(mode, 59)),
      LineItem("fig", 20, Literal(mode, 7)),
      LineItem("banana", 30, Literal(mode, 50)),
      LineItem("apple", 10, Literal(mode, 150))>>

SeqsUpTo(S, n) == UNION {[1..k -> S] : k \in 0..n}

\* [LineItem(str(item_code % d), 1, 1.0) for item_code in range(n)]
long_order(mode, n, d) ==
    [i \in 1..n |-> LineItem(ToString((i - 1) % d), 1, Literal(mode, 100))]

\* cart and banana_cart of the doctest
DoctestCarts == {<<1, 2, 3>>, <<4, 2>>}

PoolScenarios(mode) ==
    {[items |-> Pool(mode), source |-> c] :
        c \in SeqsUpTo(DOMAIN Pool(mode), MaxLen) \cup DoctestCarts}

LongScenarios(mode) ==
    UNION {{[items |-> long_order(mode, n, d), source |-> [i \in 1..n |-> i]] :
                d \in (LargeOrderThreshold - 1)..n} :
            n \in (LargeOrderThreshold - 1)..MaxLines}

Percents == {0, 7, 10, 100, 150}
\* what a caller-supplied promotion returns, in cents
CallableValues == {-100, 0, 100}

\* promotion=None
NoPromotion(mode) == [kind |-> "None", percent |-> 0, value |-> Literal(mode, 0)]

Promotions(mode) ==
    {NoPromotion(mode)}
    \cup {[kind |-> k, percent |-> p, value |-> Literal(mode, 0)] :
            k \in {"fidelity_promo", "bulk_item_promo", "large_order_promo"},
            p \in Percents}
    \cup {[kind |-> "callable", percent |-> 0, value |-> Literal(mode, v)] :
            v \in CallableValues}

Fidelities == {0, 999, 1000, 1100}

\* values a client assigns to the attributes of a LineItem
NewQuantities == {1, 20}
NewPrices == {0, 100}

----------------------------------------------------------------------------
(* State after Order(customer, cart, promotion) *)

\* Order.__init__, with the caller's list in lists.source
OrderInit(mode, scenario, cust, promo) ==
    /\ arith = mode
    /\ items = scenario.items
    /\ lists = [source |-> scenario.source, copy |-> scenario.source]
    /\ customer = cust
    /\ cartRef = OrderInitCart("source")
    /\ promotion = promo
    /\ attrs = [n \in {} |-> 0]
    /\ op = "init"
    /\ log = << >>
    /\ computes = 0
    /\ firstTotal = << >>
    /\ seenTotal = << >>
    /\ seenDue = << >>
    /\ seenDiscount = << >>
    /\ calls = 0
    /\ itemMuts = 0
    /\ srcMuts = 0

\* the Order as the methods see it
Self ==
    [customer |-> customer, cart |-> lists[cartRef], promotion |-> promotion,
     items |-> items, attrs |-> attrs, computes |-> computes, log |-> << >>]

\* the values of the entries of l made by fn, in order
Values(l, fn) ==
    LET idx == SelectSeq([i \in DOMAIN l |-> i], LAMBDA i : l[i].fn = fn)
    IN  [k \in DOMAIN idx |-> l[idx[k]].val]

First(seen, vals) ==
    IF seen = << >> /\ vals # << >> THEN <<vals[1]>> ELSE seen

\* the client performed a query that left the Order in state s
Query(name, s) ==
    /\ calls' = calls + 1
    /\ op' = name
    /\ log' = s.log
    /\ attrs' = s.attrs
    /\ computes' = s.computes
    /\ firstTotal' = First(firstTotal, Values(s.log, "total"))
    /\ seenTotal' = First(seenTotal, Values(s.log, "total"))
    /\ seenDue' = First(seenDue, Values(s.log, "due"))
    /\ seenDiscount' = First(seenDiscount, Values(s.log, "promotion"))
    /\ UNCHANGED <<arith, items, lists, customer, cartRef, promotion, itemMuts, srcMuts>>

CallTotal == Query("total", OrderTotal(Self))

CallDue == Query("due", OrderDue(Self))

CallRepr == Query("repr", OrderRepr(Self))

\* list places the client assigns to, deletes, or reaches a LineItem through
Positions(l) == {k \in DOMAIN l : k <= MaxPosition}

\* item.quantity = q or item.price = p, on a LineItem of the order's cart
MutateItem ==
    /\ itemMuts + srcMuts < MaxMutations
    /\ \E i \in {lists[cartRef][k] : k \in Positions(lists[cartRef])} :
          \/ \E q \in NewQuantities \ {items[i].quantity} :
                items' = [items EXCEPT ![i].quantity = q]
          \/ \E p \in {Literal(arith, c) : c \in NewPrices} \ {items[i].price} :
                items' = [items EXCEPT ![i].price = p]
    /\ itemMuts' = itemMuts + 1
    /\ op' = "mutate_item"
    /\ log' = << >>
    /\ seenTotal' = << >>
    /\ seenDue' = << >>
    /\ seenDiscount' = << >>
    /\ UNCHANGED <<arith, lists, customer, cartRef, promotion, attrs, computes,
                   firstTotal, calls, srcMuts>>

\* the caller's list became s
SourceBecomes(s) ==
    /\ itemMuts + srcMuts < MaxMutations
    /\ lists' = [lists EXCEPT !["source"] = s]
    /\ srcMuts' = srcMuts + 1
    /\ op' = "mutate_source"
    /\ log' = << >>
    /\ UNCHANGED <<arith, items, customer, cartRef, promotion, attrs, computes,
                   firstTotal, seenTotal, seenDue, seenDiscount, calls, itemMuts>>

\* LineItem objects the caller puts into its list
NewElements == {i \in DOMAIN items : i <= 2}

SourceAppend ==
    \E i \in NewElements : SourceBecomes(Append(lists["source"], i))

SourceRemove ==
    \E k \in Positions(lists["source"]) :
        SourceBecomes(SubSeq(lists["source"], 1, k - 1)
                      \o SubSeq(lists["source"], k + 1, Len(lists["source"])))

SourceReverse ==
    /\ Len(lists["source"]) >= 2
    /\ SourceBecomes([k \in DOMAIN lists["source"] |->
                        lists["source"][Len(lists["source"]) + 1 - k]])

SourceReplace ==
    \E k \in Positions(lists["source"]) :
        \E i \in NewElements \ {lists["source"][k]} :
            SourceBecomes([lists["source"] EXCEPT ![k] = i])

----------------------------------------------------------------------------
(* Specifications *)

\* Spec: a few orders, queried and mutated by the client
DynamicScenarios ==
    {[items |-> Pool("decimal"), source |-> c] :
        c \in DoctestCarts \cup {<< >>, <<5>>, <<2, 2>>}}
    \cup {[items |-> long_order("decimal", LargeOrderThreshold, LargeOrderThreshold),
           source |-> [i \in 1..LargeOrderThreshold |-> i]]}

\* no promotion, each strategy at 10%, and a callable returning 1.00
DynamicPromotions ==
    {p \in Promotions("decimal") :
        \/ p.kind = "None"
        \/ p.percent = 10
        \/ p.kind = "callable" /\ p.value = Literal("decimal", 100)}

Init ==
    \E scenario \in DynamicScenarios :
        \E promo \in DynamicPromotions :
            \E f \in {0, FidelityThreshold} :
                OrderInit("decimal", scenario, Customer("client", f), promo)

Next ==
    \/ calls < MaxCalls /\ CallTotal
    \/ calls < MaxCalls /\ CallDue
    \/ calls < MaxCalls /\ CallRepr
    \/ MutateItem
    \/ SourceAppend
    \/ SourceRemove
    \/ SourceReverse
    \/ SourceReplace

Spec == Init /\ [][Next]_vars

\* SpecQueries: every input of the bounded sets, queried only
InitInputs ==
    \E scenario \in PoolScenarios("decimal") \cup LongScenarios("decimal") :
        \E promo \in Promotions("decimal") :
            \E f \in Fidelities :
                OrderInit("decimal", scenario, Customer("client", f), promo)

NextQueries ==
    \/ calls < MaxQueries /\ CallTotal
    \/ calls < MaxQueries /\ CallDue
    \/ calls < MaxQueries /\ CallRepr

SpecQueries == InitInputs /\ [][NextQueries]_vars

\* SpecBinary64: short carts with prices in cents, computed as Python
\* computes them, queried only.  (sum is the plain left fold; CPython 3.12
\* and later add a correction term to a sum of floats, which is 0 for one or
\* two addends and for sums that are exact, as in the long order.)
FloatScenarios ==
    {[items |-> FloatPool("binary64"), source |-> c] :
        c \in SeqsUpTo(DOMAIN FloatPool("binary64"), MaxFloatLen)}
    \cup {[items |-> long_order("binary64", LargeOrderThreshold, LargeOrderThreshold),
           source |-> [i \in 1..LargeOrderThreshold |-> i]]}

InitBinary64 ==
    \E scenario \in FloatScenarios :
        \E promo \in {p \in Promotions("binary64") : p.percent \in {0, 10, 100}} :
            \E f \in {0, FidelityThreshold} :
                OrderInit("binary64", scenario, Customer("client", f), promo)

SpecBinary64 == InitBinary64 /\ [][NextQueries]_vars

----------------------------------------------------------------------------
(* What the claims speak about, stated without the methods of the model *)

Cart == lists[cartRef]

Line(k) == items[Cart[k]]

RECURSIVE SumOver(_, _)
\* the sum of f[k] over the finite set S
SumOver(S, f) ==
    IF S = {} THEN 0
    ELSE LET k == CHOOSE x \in S : TRUE IN f[k] + SumOver(S \ {k}, f)

LinePrice == [k \in DOMAIN Cart |-> Line(k).price * Line(k).quantity]

\* sum over all lines of the order's cart of price * quantity
LineSum == SumOver(DOMAIN Cart, LinePrice)

LineShare == [k \in DOMAIN Cart |-> (LinePrice[k] * promotion.percent) \div 100]

\* lines that are the first of the cart with their product identifier
FirstOccurrences ==
    {k \in DOMAIN Cart : \A j \in 1..(k - 1) : Line(j).product # Line(k).product}

ExpectedFidelity ==
    IF customer.fidelity <= 999 THEN 0 ELSE (LineSum * promotion.percent) \div 100

ExpectedBulk == SumOver({k \in DOMAIN Cart : Line(k).quantity > 19}, LineShare)

ExpectedLarge ==
    IF Cardinality(FirstOccurrences) < 10 THEN 0
    ELSE (LineSum * promotion.percent) \div 100

ExpectedDiscount ==
    CASE promotion.kind = "None" -> 0
      [] promotion.kind = "fidelity_promo" -> ExpectedFidelity
      [] promotion.kind = "bulk_item_promo" -> ExpectedBulk
      [] promotion.kind = "large_order_promo" -> ExpectedLarge
      [] promotion.kind = "callable" -> promotion.value

Totals == Values(log, "total")
Dues == Values(log, "due")
Discounts == Values(log, "promotion")

Range(vals) == {vals[k] : k \in DOMAIN vals}

WellFormed ==
    \A k \in DOMAIN Cart : Line(k).quantity > 0 /\ AtMost(Zero, Line(k).price)

\* the doctest's orders
IsCart(c) == items = Pool(arith) /\ Cart = c
IsLongOrder == items = long_order(arith, 10, 10) /\ Cart = [i \in 1..10 |-> i]
IsPromo(kind, percent) == promotion.kind = kind /\ promotion.percent = percent

----------------------------------------------------------------------------
(* Claims *)

\* C1 (as claimed): total() is memoized: the sum over the cart is evaluated
\* at most once in the life of an Order, and every total() call returns the
\* value stored by the first call.
C1_TotalMemoized ==
    /\ computes <= 1
    /\ (\A v \in Range(Totals) : firstTotal = <<v>>)

\* C2: whatever the cart and the promotion, every total() call returns the sum
\* over the lines of the order's cart of price * quantity.
C2_TotalIsSumOfLines == (\A v \in Range(Totals) : v = LineSum)

C2_Witness ==
    /\ op = "total"
    /\ IsCart(<<4, 2>>)
    /\ IsPromo("bulk_item_promo", 10)
    /\ Totals = <<300000>>

\* C3: due() returns total() minus the discount, the discount being what the
\* promotion returns for this order, or 0 without a promotion; without a
\* promotion due() = total(), and a non-negative discount gives
\* due() <= total().
C3_DueIsTotalMinusDiscount ==
    /\ promotion.kind = "None" =>
          /\ Discounts = << >>
          /\ (\A d \in Range(Dues) : d = LineSum /\ d = Totals[Len(Totals)])
    /\ promotion.kind # "None" =>
          /\ (\A x \in Range(Discounts) : x = ExpectedDiscount)
          /\ (\A d \in Range(Dues) :
                /\ Len(Discounts) = 1
                /\ d = LineSum - Discounts[1]
                /\ Discounts[1] >= 0 => d <= LineSum)

C3_Witness ==
    /\ op = "due"
    /\ promotion.kind = "callable"
    /\ promotion.value = 10000
    /\ Discounts = <<10000>>
    /\ IsCart(<<1, 2, 3>>)
    /\ Dues = <<410000>>

\* C4: with well-formed lines (quantity > 0, price >= 0) and one of the three
\* strategies at a percentage between 0 and 100, 0 <= discount <= total() and
\* 0 <= due() <= total().
C4_DiscountWithinTotal ==
    ( /\ WellFormed
      /\ promotion.kind \in {"fidelity_promo", "bulk_item_promo", "large_order_promo"}
      /\ promotion.percent \in 0..100
      /\ op \in {"due", "repr"} )
    => /\ (\A x \in Range(Discounts) :
              AtMost(Zero, x) /\ AtMost(x, Totals[Len(Totals)]))
       /\ (\A d \in Range(Dues) :
              AtMost(Zero, d) /\ AtMost(d, Totals[Len(Totals)]))

\* C5: a mutation of the caller's list (append, remove, reorder, replace)
\* leaves the order's cart unchanged, and with it everything total() and
\* due() read, hence what they return.
C5_SourceMutationIsolated ==
    [][lists'["source"] # lists["source"] => Cart' = Cart /\ Self' = Self]_vars

C5_Witness ==
    /\ srcMuts > 0
    /\ lists["source"] # Cart
    /\ op = "due"
    /\ calls = 2
    /\ Totals # << >>
    /\ (\A v \in Range(Totals) : firstTotal = <<v>> /\ v > 0)

\* C6: bulk_item_promo(percent) returns the sum over exactly the lines with
\* quantity >= 20 of item.total() * percent / 100, each line on its own; the
\* doctest's banana cart at 10% has total 30.00 and due 28.50.
C6_BulkItemPromo ==
    promotion.kind = "bulk_item_promo" =>
        /\ (\A x \in Range(Discounts) : x = ExpectedBulk)
        /\ (\A k \in DOMAIN Cart : Line(k).quantity <= 19) =>
              (\A x \in Range(Discounts) : x = 0)
        /\ (IsCart(<<4, 2>>) /\ promotion.percent = 10) =>
              /\ (\A v \in Range(Totals) : v = 300000)
              /\ (\A d \in Range(Dues) : d = 285000)

C6_Witness ==
    /\ op = "due"
    /\ IsCart(<<2, 2>>)
    /\ IsPromo("bulk_item_promo", 10)
    /\ Discounts = <<0>>
    /\ Dues = <<300000>>

\* C7: large_order_promo(percent) returns total() * percent / 100 when the
\* cart has 10 or more distinct product identifiers and 0 otherwise, repeated
\* identifiers not counting; the doctest's long order at 7% is due 9.30 and
\* its 3-item cart gets no discount.
C7_LargeOrderPromo ==
    promotion.kind = "large_order_promo" =>
        /\ (\A x \in Range(Discounts) : x = ExpectedLarge)
        /\ (IsLongOrder /\ promotion.percent = 7) =>
              (\A d \in Range(Dues) : d = 93000)
        /\ IsCart(<<1, 2, 3>>) => (\A d \in Range(Dues) : d = 420000)

C7_Witness ==
    /\ op = "due"
    /\ Len(Cart) >= 10
    /\ Cardinality({Line(k).product : k \in DOMAIN Cart}) = 9
    /\ IsPromo("large_order_promo", 7)
    /\ Discounts = <<0>>
    /\ Dues = Totals

\* C8: fidelity_promo(percent) returns total() * percent / 100 when the
\* customer's fidelity is >= 1000 and 0 when it is 999 or less, whatever the
\* cart; the doctest's cart at 10% is due 42.00 at fidelity 0 and 37.80 at
\* fidelity 1100.
C8_FidelityPromo ==
    promotion.kind = "fidelity_promo" =>
        /\ (\A x \in Range(Discounts) : x = ExpectedFidelity)
        /\ (IsCart(<<1, 2, 3>>) /\ promotion.percent = 10) =>
              /\ customer.fidelity = 0 => (\A d \in Range(Dues) : d = 420000)
              /\ customer.fidelity = 1100 => (\A d \in Range(Dues) : d = 378000)

C8_Witness ==
    /\ op = "due"
    /\ customer.fidelity = 1000
    /\ IsCart(<<1, 2, 3>>)
    /\ IsPromo("fidelity_promo", 10)
    /\ Discounts = <<42000>>
    /\ Dues = <<378000>>

\* C9: as long as no line item of the order is changed, every total() call
\* returns the same value, every due() call returns the same value and the
\* promotion returns the same discount, in whatever order they are called.
C9_QueriesIdempotent ==
    /\ (\A v \in Range(Totals) : seenTotal = <<v>>)
    /\ (\A d \in Range(Dues) : seenDue = <<d>>)
    /\ (\A x \in Range(Discounts) : seenDiscount = <<x>>)

C9_Witness ==
    /\ itemMuts = 0
    /\ calls = 2
    /\ op = "total"
    /\ promotion.kind = "fidelity_promo"
    /\ seenDue # << >>
    /\ seenDiscount # <<0>>
    /\ Totals # <<0>>

\* C10: the order's cart holds the caller's LineItem objects themselves, so
\* after a line item's quantity or price is assigned, total() and due() return
\* the sum over the new values (less the discount on the new values), also
\* when total() had been called before the assignment.
C10_ItemMutationIsSeen ==
    /\ srcMuts = 0 => Cart = lists["source"]
    /\ itemMuts > 0 =>
          /\ (\A v \in Range(Totals) : v = LineSum)
          /\ (\A d \in Range(Dues) : d = LineSum - ExpectedDiscount)

C10_Witness ==
    /\ itemMuts > 0
    /\ op = "total"
    /\ firstTotal # << >>
    /\ firstTotal # Totals
    /\ Totals = <<LineSum>>

====
